---- MODULE Spec2Model ----
(***************************************************************************)
(* Model of the live-mirror core of UaeParkingDashboard.tsx: the WebSocket *)
(* connection manager (connectWebSocket and the four socket handlers), the *)
(* message dispatcher handleWebSocketMessage, the slot store parkingSlots  *)
(* and the fallback simulator simulateRealisticParking.                    *)
(*                                                                         *)
(* React state setters are modelled as taking effect within the handler    *)
(* that calls them, together with the effects that depend on the changed   *)
(* state (the drift-interval effect depends on connectionStatus).          *)
(***************************************************************************)
EXTENDS Integers, Sequences, FiniteSets, TLC

----------------------------------------------------------------------------
(* Bounds of the model *)

\* sockets the manager may create in one behaviour of Spec
MaxSockets == 4
\* sockets created in SpecReopen
MaxReopenSockets == 7
\* reconnect clicks that create a socket in one behaviour
MaxClicks == 1
\* the drift simulator is followed until a duration reaches this value
MaxDuration == 1
\* the drift simulator is followed in SpecDrift until a duration reaches this
\* value
MaxDriftDuration == 6
\* status payloads recorded in the history of SpecStatus
MaxStatus == 3
\* status frames received in SpecHistory
MaxHistoryFrames == 11
\* SpecThreshold stops ticking once a duration has reached this value
MaxThresholdDuration == 62
\* records in a store that SpecStore starts from
MaxSlots == 2
\* updates in a bulk_update frame of SpecStore
MaxBatch == 2

----------------------------------------------------------------------------
(* Program constants *)

maxReconnectAttempts == 5
NORMAL_CLOSURE == 1000
ABNORMAL_CLOSURE == 1006
BACKOFF_BASE == 1000
BACKOFF_CAP == 30000

\* close codes a close event may carry
CloseCodes == {NORMAL_CLOSURE, ABNORMAL_CLOSURE}

VARIABLES
    phase,                \* "init" (constructed), "mounted", "unmounted", or
                          \* "crashed": a render threw and React removed the tree
    connectionStatus,     \* useState connectionStatus
    wsRef,                \* wsRef.current: a socket id, 0 for null
    sockets,              \* life cycle of every socket created, by id
    reconnectAttempts,    \* reconnectAttempts.current
    reconnectTimeoutRef,  \* reconnectTimeoutRef.current: a timer id, 0 for null
    timers,               \* pending retry timers: records [id, delay]
    driftInterval,        \* "none", or the connectionStatus captured by the
                          \* simulateRealisticParking closure the interval runs
    driftTimers,          \* pending drift intervals, each the connectionStatus
                          \* its closure captured
    parkingSlots,         \* useState parkingSlots: a sequence of slot records
    lastMessageTime,      \* useState lastMessageTime
    backendStatus,        \* useState backendStatus: the last status payload
    statusHistory,        \* useState statusHistory: records [timestamp, data]
    clicks,               \* reconnect clicks that created a socket so far
    lastEvent             \* the handler that ran last, with its inputs

vars == <<phase, connectionStatus, wsRef, sockets, reconnectAttempts,
          reconnectTimeoutRef, timers, driftInterval, driftTimers, parkingSlots,
          lastMessageTime, backendStatus, statusHistory, clicks, lastEvent>>

----------------------------------------------------------------------------
(* Sockets *)

\* WebSocket.readyState of a socket, from its life cycle.  "CLOSING_OPEN" and
\* "CLOSING_CONNECTING" are a socket on which close() was called while it was
\* open, resp. still connecting; "FAILED" is a socket whose connection failed
\* (readyState CLOSED) and whose close event is still to be dispatched.
readyState(s) ==
    CASE sockets[s] = "CONNECTING" -> "CONNECTING"
      [] sockets[s] = "OPEN" -> "OPEN"
      [] sockets[s] \in {"CLOSING_OPEN", "CLOSING_CONNECTING"} -> "CLOSING"
      [] OTHER -> "CLOSED"

SocketIds == 1..Len(sockets)

\* sockets that are connecting or open and not yet closed or closing
ActiveSockets == {s \in SocketIds : sockets[s] \in {"CONNECTING", "OPEN"}}

Pow2(n) == IF n = 0 THEN 1 ELSE IF n = 1 THEN 2 ELSE IF n = 2 THEN 4
           ELSE IF n = 3 THEN 8 ELSE IF n = 4 THEN 16 ELSE IF n = 5 THEN 32 ELSE 64

Min(a, b) == IF a < b THEN a ELSE b

\* faulty variant: the delay grows linearly instead of doubling
BackoffDelay_Linear(attempts) == Min(BACKOFF_BASE * (attempts + 1), BACKOFF_CAP)

\* Math.min(1000 * Math.pow(2, reconnectAttempts.current), 30000)
BackoffDelay(attempts) == Min(BACKOFF_BASE * Pow2(attempts), BACKOFF_CAP)

\* faulty variant: the close code test is inverted
ShouldRetry_OnlyCleanClose(code, attempts) ==
    code = NORMAL_CLOSURE /\ attempts < maxReconnectAttempts

\* faulty variant: the ceiling is tested with <= instead of <
ShouldRetry_OffByOne(code, attempts) ==
    code # NORMAL_CLOSURE /\ attempts <= maxReconnectAttempts

\* faulty variant: the close code is not looked at
ShouldRetry_AnyCode(code, attempts) == attempts < maxReconnectAttempts

\* whether onclose schedules a retry:
\* event.code !== 1000 && reconnectAttempts.current < maxReconnectAttempts
ShouldRetry(code, attempts) ==
    code # NORMAL_CLOSURE /\ attempts < maxReconnectAttempts

\* faulty variant: the interval is set whatever the status
DriftEffect_Always(st) == IF phase' = "mounted" THEN st ELSE "none"

\* the interval the drift effect leaves behind once connectionStatus is st:
\* the cleanup clears the previous interval, and a new one is set unless
\* st is "connected"
DriftEffect(st) ==
    IF phase' = "mounted" /\ st # "connected" THEN st ELSE "none"

\* faulty variant: the effect returns no cleanup
DriftCleanup_Keeps(pending, held) == pending

\* the cleanup of the drift effect, return () => clearInterval(interval):
\* the pending intervals without the one the effect holds
DriftCleanup(pending, held) == pending \ {held}

\* setConnectionStatus(st), with the re-run of the drift-interval effect: its
\* cleanup, then the new interval
SetConnectionStatus(st) ==
    /\ connectionStatus' = st
    /\ driftInterval' = DriftEffect(st)
    /\ driftTimers' = DriftCleanup(driftTimers, driftInterval)
                         \cup (IF DriftEffect(st) = "none" THEN {} ELSE {DriftEffect(st)})

\* faulty variant: no check of the held socket's readyState
connectWebSocket_Unguarded ==
    /\ SetConnectionStatus("connecting")
    /\ sockets' = Append(sockets, "CONNECTING")
    /\ wsRef' = Len(sockets) + 1

\* connectWebSocket()
connectWebSocket ==
    IF wsRef # 0 /\ readyState(wsRef) = "OPEN"
    THEN UNCHANGED <<connectionStatus, driftInterval, driftTimers, wsRef, sockets>>
    ELSE /\ SetConnectionStatus("connecting")
         /\ sockets' = Append(sockets, "CONNECTING")
         /\ wsRef' = Len(sockets) + 1

----------------------------------------------------------------------------
(* Slot store *)

\* A slot record is a function from the field names it carries to their
\* values; a field the JSON object lacks is absent from its domain.
\* A JSON value that the dispatcher inspects is tagged with its kind:
\* [kind |-> "object", fields |-> record], [kind |-> "array", items |-> seq]
\* or [kind |-> "null"].

Has(r, f) == f \in DOMAIN r

\* a === b on field f of two records (undefined === undefined is true)
SameField(a, b, f) ==
    IF Has(a, f) /\ Has(b, f) THEN a[f] = b[f] ELSE ~Has(a, f) /\ ~Has(b, f)

\* value.f || dflt, for a numeric field
NumOr(r, f, dflt) == IF Has(r, f) /\ r[f] # 0 THEN r[f] ELSE dflt

\* { ...a, ...b }
Spread(a, b) == [f \in DOMAIN a \cup DOMAIN b |-> IF Has(b, f) THEN b[f] ELSE a[f]]

IsArray(v) == v.kind = "array"
IsObject(v) == v.kind = "object"
Arr(items) == [kind |-> "array", items |-> items]
Obj(fields) == [kind |-> "object", fields |-> fields]

\* a keyed mapping (an object whose keys are data, such as `displays`): its
\* entries in Object.entries order, each [key, object, value] where object
\* says whether the value is a non-null object
Map(entries) == [kind |-> "object", entries |-> entries]
Null == [kind |-> "null"]
Undefined == [kind |-> "undefined"]
Str(text) == [kind |-> "string", text |-> text]

\* v && typeof v === 'object'
TruthyObject(v) == v.kind \in {"object", "array"}

\* v is truthy (the strings used are not empty)
Truthy(v) == v.kind \in {"object", "array", "string"}

\* data.f, for a field name f the dispatcher reads
Field(data, f) ==
    IF data.kind = "object" /\ Has(data, "fields") /\ Has(data.fields, f)
    THEN data.fields[f]
    ELSE Undefined

\* r.f || r.g || dflt, for string fields
StrOr(r, f, g, dflt) ==
    IF Has(r, f) /\ r[f] # "" THEN r[f]
    ELSE IF Has(r, g) /\ r[g] # "" THEN r[g]
    ELSE dflt

\* r.f || r.g || dflt, for numeric fields
NumOr2(r, f, g, dflt) == NumOr(r, f, NumOr(r, g, dflt))

\* faulty variant: the record is replaced by the update, not merged with it
MergeUpdate_Replace(slot, update, now) ==
    Spread(update, [lastUpdated |-> NumOr(update, "lastUpdated", now)])

\* { ...slot, ...update, lastUpdated: update.lastUpdated || Date.now() }
MergeUpdate(slot, update, now) ==
    Spread(Spread(slot, update), [lastUpdated |-> NumOr(update, "lastUpdated", now)])

\* updatedSlots.findIndex(slot => slot.id === update.id), 0 for -1
FindIndex(slots, update) ==
    IF \E i \in 1..Len(slots) : SameField(slots[i], update, "id")
    THEN CHOOSE i \in 1..Len(slots) :
            /\ SameField(slots[i], update, "id")
            /\ \A j \in 1..(i - 1) : ~SameField(slots[j], update, "id")
    ELSE 0

\* faulty variant: an update without a matching record is inserted
ApplyUpdate_Upsert(slots, update, now) ==
    LET index == FindIndex(slots, update)
    IN  IF index # 0
        THEN [slots EXCEPT ![index] = MergeUpdate(slots[index], update, now)]
        ELSE Append(slots, update)

\* the body of bulkData.updates.forEach for one update
ApplyUpdate(slots, update, now) ==
    LET index == FindIndex(slots, update)
    IN  IF index # 0
        THEN [slots EXCEPT ![index] = MergeUpdate(slots[index], update, now)]
        ELSE slots

\* the updater of case 'bulk_update' over the first k updates
RECURSIVE BulkUpdate(_, _, _, _)
BulkUpdate(slots, updates, k, now) ==
    IF k = 0 THEN slots
    ELSE ApplyUpdate(BulkUpdate(slots, updates, k - 1, now), updates[k], now)

\* the updater of case 'single_update'
SingleUpdate(slots, singleUpdate, now) ==
    [i \in 1..Len(slots) |->
        IF SameField(slots[i], singleUpdate, "id")
        THEN MergeUpdate(slots[i], singleUpdate, now)
        ELSE slots[i]]

\* the record the displays and bare-array branches map an element to
NormalizeSlot(slot, now) ==
    [id |-> StrOr(slot, "id", "slot_id", "Unknown"),
     state |-> StrOr(slot, "state", "status", "free"),
     lastUpdated |-> NumOr2(slot, "lastUpdated", "timestamp", now),
     zone |-> StrOr(slot, "zone", "zone", "A"),
     floor |-> NumOr(slot, "floor", 1),
     duration |-> NumOr(slot, "duration", 0)]

\* the record pushed for one entry of a keyed displays mapping
NormalizeEntry(entry, now) ==
    [id |-> entry.key,
     state |-> StrOr(entry.value, "state", "status", "free"),
     lastUpdated |-> NumOr2(entry.value, "lastUpdated", "timestamp", now),
     zone |-> StrOr(entry.value, "zone", "zone", "A"),
     floor |-> NumOr(entry.value, "floor", 1),
     duration |-> NumOr(entry.value, "duration", 0)]

\* the slots made of a truthy `displays` object: an array is mapped
\* elementwise, a keyed mapping entry by entry, skipping non-object values
DisplaysSlots(displays, now) ==
    IF IsArray(displays)
    THEN [i \in 1..Len(displays.items) |-> NormalizeSlot(displays.items[i], now)]
    ELSE LET objects == SelectSeq(displays.entries, LAMBDA e : e.object)
         IN  [i \in 1..Len(objects) |-> NormalizeEntry(objects[i], now)]

\* faulty variant: only the `slots` list is read
InitialDataSlots_SlotsOnly(data, now) ==
    IF Truthy(Field(data, "slots")) /\ IsArray(Field(data, "slots"))
    THEN Field(data, "slots").items
    ELSE <<>>

\* faulty variant: `displays` is read before `slots`
InitialDataSlots_DisplaysFirst(data, now) ==
    IF TruthyObject(Field(data, "displays"))
    THEN DisplaysSlots(Field(data, "displays"), now)
    ELSE IF Truthy(Field(data, "slots")) /\ IsArray(Field(data, "slots"))
    THEN Field(data, "slots").items
    ELSE IF IsArray(data)
    THEN [i \in 1..Len(data.items) |-> NormalizeSlot(data.items[i], now)]
    ELSE <<>>

\* case 'initial_data': the slots extracted from message.data
InitialDataSlots(data, now) ==
    IF Truthy(Field(data, "slots")) /\ IsArray(Field(data, "slots"))
    THEN Field(data, "slots").items
    ELSE IF TruthyObject(Field(data, "displays"))
    THEN DisplaysSlots(Field(data, "displays"), now)
    ELSE IF IsArray(data)
    THEN [i \in 1..Len(data.items) |-> NormalizeSlot(data.items[i], now)]
    ELSE <<>>

\* case 'status': the slots extracted from message.data
StatusSlots(data, now) ==
    IF TruthyObject(Field(data, "displays"))
    THEN DisplaysSlots(Field(data, "displays"), now)
    ELSE <<>>

\* faulty variant: no case for ping, which falls through to the default case
LoggedTypes_NoPing == {"system_status", "error"}

\* the types whose case only logs: system_status, ping, error
LoggedTypes == {"system_status", "ping", "error"}

\* parkingSlots after handleWebSocketMessage(message)
handleWebSocketMessage(slots, message, now) ==
    CASE message.type = "initial_data" ->
            IF TruthyObject(message.data)
            THEN LET found == InitialDataSlots(message.data, now)
                 IN  IF Len(found) > 0 THEN found ELSE slots
            ELSE slots
      [] message.type = "bulk_update" ->
            BulkUpdate(slots, message.data.fields.updates.items,
                       Len(message.data.fields.updates.items), now)
      [] message.type = "single_update" ->
            IF IsObject(message.data)
            THEN SingleUpdate(slots, message.data.fields, now)
            ELSE slots
      [] message.type = "status" ->
            IF TruthyObject(message.data)
            THEN LET found == StatusSlots(message.data, now)
                 IN  IF Len(found) > 0 THEN found ELSE slots
            ELSE slots
      [] message.type \in LoggedTypes -> slots
      [] OTHER ->
            IF /\ Truthy(message.data)
               /\ Truthy(Field(message.data, "slots")) \/ Truthy(Field(message.data, "displays"))
               /\ Truthy(Field(message.data, "slots"))
               /\ IsArray(Field(message.data, "slots"))
            THEN Field(message.data, "slots").items
            ELSE slots

\* faulty variant: the payload is recorded only when it has displays
StatusRecorded_OnlyWithSlots(message) ==
    /\ message.type = "status"
    /\ TruthyObject(message.data)
    /\ TruthyObject(Field(message.data, "displays"))

\* whether case 'status' records the payload: message.data is a non-null
\* object (or array)
StatusRecorded(message) ==
    message.type = "status" /\ TruthyObject(message.data)

\* faulty variant: prev.slice(-10), which keeps eleven entries
AppendStatus_KeepsTen(history, data, now) ==
    LET kept == IF Len(history) > 10
                THEN SubSeq(history, Len(history) - 9, Len(history))
                ELSE history
    IN  Append(kept, [timestamp |-> now, data |-> data])

\* [...prev.slice(-9), { timestamp: Date.now(), data: message.data }]
AppendStatus(history, data, now) ==
    LET kept == IF Len(history) > 9
                THEN SubSeq(history, Len(history) - 8, Len(history))
                ELSE history
    IN  Append(kept, [timestamp |-> now, data |-> data])

\* whether the state updater queued by the handler throws when React runs it
\* for the next render: bulkData.updates.forEach needs an updates array, and
\* the map callback of single_update reads singleUpdate.id for every record
UpdaterThrows(slots, message) ==
    \/ /\ message.type = "bulk_update"
       /\ ~IsArray(Field(message.data, "updates"))
    \/ /\ message.type = "single_update"
       /\ message.data.kind \in {"null", "undefined"}
       /\ Len(slots) > 0

\* Math.random() samples, in thousandths
RandomSamples == {5, 50}

\* changeProbability of simulateRealisticParking, in thousandths
changeProbability(slot) ==
    LET newDuration == NumOr(slot, "duration", 0) + 1
        base == IF Has(slot, "floor") /\ slot.floor = 1 THEN 40
                ELSE IF Has(slot, "floor") /\ slot.floor = 3 THEN 10
                ELSE 20
        p1 == IF Has(slot, "state") /\ slot.state = "occupied" /\ newDuration > 60
              THEN base * 2 ELSE base
    IN  IF Has(slot, "state") /\ slot.state = "free" /\ newDuration > 10
        THEN (p1 * 3) \div 2 ELSE p1

\* faulty variant: the tick rebuilds every record with the defaults of the
\* snapshot branches
DriftSlot_Normalizes(slot, random, now) ==
    LET full == Spread(NormalizeSlot(slot, NumOr(slot, "lastUpdated", now)), slot)
    IN  IF random < changeProbability(slot)
        THEN Spread(full,
               [state |-> IF Has(slot, "state") /\ slot.state = "free"
                          THEN "occupied" ELSE "free",
                lastUpdated |-> now,
                duration |-> 0])
        ELSE Spread(full, [duration |-> NumOr(slot, "duration", 0) + 1])

\* faulty variant: a slot that does not flip gets the tick time as lastUpdated
DriftSlot_TouchesStamp(slot, random, now) ==
    IF random < changeProbability(slot)
    THEN Spread(slot,
           [state |-> IF Has(slot, "state") /\ slot.state = "free"
                      THEN "occupied" ELSE "free",
            lastUpdated |-> now,
            duration |-> 0])
    ELSE Spread(slot, [duration |-> NumOr(slot, "duration", 0) + 1,
                       lastUpdated |-> now])

\* faulty variant: a flip keeps the duration counting
DriftSlot_KeepDuration(slot, random, now) ==
    IF random < changeProbability(slot)
    THEN Spread(slot,
           [state |-> IF Has(slot, "state") /\ slot.state = "free"
                      THEN "occupied" ELSE "free",
            lastUpdated |-> now,
            duration |-> NumOr(slot, "duration", 0) + 1])
    ELSE Spread(slot, [duration |-> NumOr(slot, "duration", 0) + 1])

\* the record simulateRealisticParking maps one slot to
DriftSlot(slot, random, now) ==
    IF random < changeProbability(slot)
    THEN Spread(slot,
           [state |-> IF Has(slot, "state") /\ slot.state = "free"
                      THEN "occupied" ELSE "free",
            lastUpdated |-> now,
            duration |-> 0])
    ELSE Spread(slot, [duration |-> NumOr(slot, "duration", 0) + 1])

\* the updater of simulateRealisticParking; random[i] is the sample drawn for
\* slot i
simulateRealisticParking(slots, random, now) ==
    [i \in 1..Len(slots) |-> DriftSlot(slots[i], random[i], now)]

----------------------------------------------------------------------------
(* Inputs *)

\* Date.now() values
Times == {7}

SlotA1 == [id |-> "A1", state |-> "occupied", zone |-> "A", floor |-> 1,
           lastUpdated |-> 7, duration |-> 0]

\* frames delivered on the sockets of the connection manager
ConnFrames ==
    { [type |-> "initial_data", data |-> Obj([slots |-> Arr(<<SlotA1>>)])],
      [type |-> "bulk_update",
       data |-> Obj([updates |-> Arr(<<[id |-> "A1", state |-> "free"],
                                       [id |-> "B2", state |-> "occupied"]>>),
                     updateCount |-> 2])],
      [type |-> "single_update", data |-> Obj([id |-> "B2", state |-> "free"])] }

\* sequences over S of length at most n
SeqsUpTo(S, n) == UNION {[1..k -> S] : k \in 0..n}

\* records that stores of SpecStore are made of: complete records, a raw
\* record that repeats an id, and a raw record without id
SlotInputs ==
    { [id |-> "A1", state |-> "occupied", zone |-> "A", floor |-> 1,
       lastUpdated |-> 3, duration |-> 5],
      [id |-> "B2", state |-> "free", zone |-> "B", floor |-> 2,
       lastUpdated |-> 3, duration |-> 0],
      [id |-> "A1", state |-> "free"],
      [state |-> "free", zone |-> "A"] }

\* records of the stores the drift simulator runs over: those of SlotInputs
\* and a record like B2 in the state available
DriftInputs ==
    SlotInputs \cup
      { [id |-> "D4", state |-> "available", zone |-> "B", floor |-> 2,
         lastUpdated |-> 3, duration |-> 0] }

\* Math.random() samples, in thousandths, that fall between the unscaled and
\* the scaled probability of each floor
ThresholdSamples == {12, 25, 50}

\* records on each kind of floor, occupied or free, with a duration at, just
\* below or just above 10 and 60 minutes
ThresholdInputs ==
    {[id |-> "A1", state |-> st, zone |-> "A", floor |-> fl, lastUpdated |-> 3,
      duration |-> d] :
        st \in {"occupied", "free"}, fl \in {1, 2, 3}, d \in {9, 10, 11, 59, 60, 61}}

\* partial records carried by bulk_update and single_update frames
UpdateInputs ==
    { [id |-> "A1", state |-> "free"],
      [id |-> "B2", state |-> "occupied", lastUpdated |-> 9],
      [id |-> "C3", state |-> "occupied"],
      [id |-> "A1", state |-> "occupied", lastUpdated |-> 0] }

\* frames applied to the store in SpecStore
StoreFrames ==
    { [type |-> "bulk_update", data |-> Obj([updates |-> Arr(us), updateCount |-> Len(us)])] :
        us \in SeqsUpTo(UpdateInputs, MaxBatch) }
    \cup { [type |-> "single_update", data |-> Obj(u)] : u \in UpdateInputs }
    \cup { [type |-> "initial_data", data |-> Obj([slots |-> Arr(<<SlotA1>>)])] }

\* elements a snapshot list carries: a record without duration and
\* lastUpdated, a record under the alternative field names, a record
\* without id
SnapshotRecords ==
    {[id |-> "A1", state |-> "occupied", floor |-> 1, zone |-> "A"],
     [slot_id |-> "B2", status |-> "occupied", timestamp |-> 3, floor |-> 2],
     [state |-> "free", duration |-> 4]}

\* entries of a keyed displays mapping; the value of C3 is no object
SnapshotEntries ==
    {[key |-> "A1", object |-> TRUE, value |-> [state |-> "occupied", floor |-> 1]],
     [key |-> "B2", object |-> TRUE, value |-> [status |-> "free", timestamp |-> 3]],
     [key |-> "C3", object |-> FALSE, value |-> Null]}

\* the keys of an object are distinct
SnapshotMappings ==
    {e \in SeqsUpTo(SnapshotEntries, MaxSlots) :
        \A i, j \in 1..Len(e) : e[i].key = e[j].key => i = j}

\* payloads that carry slot data in one of the shapes the dispatcher reads
SnapshotPayloads ==
    {Obj([slots |-> Arr(l)]) : l \in SeqsUpTo(SnapshotRecords, MaxSlots)}
      \cup {Obj([displays |-> Arr(l)]) : l \in SeqsUpTo(SnapshotRecords, MaxSlots)}
      \cup {Obj([displays |-> Map(e)]) : e \in SnapshotMappings}
      \cup {Arr(l) : l \in SeqsUpTo(SnapshotRecords, MaxSlots)}

\* payloads that match several shapes at once, or carry a `slots` or
\* `displays` field that is no collection
PrecedencePayloads ==
    {Obj([slots |-> Arr(<<[id |-> "A1", state |-> "occupied", floor |-> 1, zone |-> "A"]>>),
          displays |-> Arr(<<[slot_id |-> "B2", status |-> "occupied", timestamp |-> 3,
                              floor |-> 2]>>)]),
     Obj([slots |-> Arr(<<[id |-> "A1", state |-> "occupied", floor |-> 1, zone |-> "A"]>>),
          displays |-> Map(<<[key |-> "B2", object |-> TRUE,
                              value |-> [status |-> "free", timestamp |-> 3]]>>)]),
     Obj([slots |-> Arr(<<>>),
          displays |-> Arr(<<[slot_id |-> "B2", status |-> "occupied", timestamp |-> 3,
                              floor |-> 2]>>)]),
     Obj([slots |-> Str("none"),
          displays |-> Map(<<[key |-> "B2", object |-> TRUE,
                              value |-> [status |-> "free", timestamp |-> 3]]>>)]),
     Obj([slots |-> Null,
          displays |-> Arr(<<[slot_id |-> "B2", status |-> "occupied", timestamp |-> 3,
                              floor |-> 2]>>)]),
     Obj([displays |-> Str("none")]),
     Obj([slots |-> Str("none"), displays |-> Null])}

\* payloads without slot data
EmptyPayloads == {Null, Undefined, Str("ok"), Obj([note |-> Str("ok")])}

\* payloads of the frames that are neither snapshots nor deltas: slot data
\* in each shape, an empty slots list, no slot data
OtherPayloads ==
    {Obj([slots |-> Arr(<<[id |-> "A1", state |-> "occupied", floor |-> 1, zone |-> "A"]>>)]),
     Obj([slots |-> Arr(<<>>)]),
     Obj([displays |-> Arr(<<[slot_id |-> "B2", status |-> "occupied", timestamp |-> 3,
                              floor |-> 2]>>)]),
     Obj([displays |-> Map(<<[key |-> "B2", object |-> TRUE,
                              value |-> [status |-> "free", timestamp |-> 3]]>>)]),
     Arr(<<[slot_id |-> "B2", status |-> "occupied", timestamp |-> 3, floor |-> 2]>>),
     Obj([note |-> Str("ok")]),
     Null}

\* frames of the snapshot feed
SnapshotFrames ==
    {[type |-> "initial_data", data |-> d] :
        d \in SnapshotPayloads \cup PrecedencePayloads \cup EmptyPayloads}
      \cup {[type |-> "bulk_update", data |-> d] :
              d \in {Obj([note |-> Str("ok")]),
                     Obj([updates |-> Arr(<<[id |-> "Q7", state |-> "free"]>>)])}}
      \cup {[type |-> "single_update", data |-> d] :
              d \in {Null, Obj([id |-> "Q7", state |-> "free"])}}
      \cup {[type |-> t, data |-> d] :
              t \in {"system_status", "ping", "error", "telemetry"},
              d \in OtherPayloads}

\* payloads of status frames: slot data in each shape, no slot data, and
\* payloads that are no object
StatusPayloads ==
    {Obj([slots |-> Arr(<<[id |-> "A1", state |-> "occupied", floor |-> 1, zone |-> "A"]>>)]),
     Obj([displays |-> Arr(<<[slot_id |-> "B2", status |-> "occupied", timestamp |-> 3,
                              floor |-> 2],
                             [state |-> "free", duration |-> 4]>>)]),
     Obj([displays |-> Map(<<[key |-> "A1", object |-> TRUE,
                              value |-> [state |-> "occupied", floor |-> 1]],
                             [key |-> "C3", object |-> FALSE, value |-> Null]>>)]),
     Arr(<<[id |-> "A1", state |-> "occupied", floor |-> 1, zone |-> "A"]>>),
     Obj([note |-> Str("ok")]),
     Null,
     Str("ok")}

\* frames of the status feed
StatusFrames == {[type |-> "status", data |-> d] : d \in StatusPayloads}

\* frames of a long status feed: two payloads without slot data, and one
\* that is not recorded
HistoryFrames ==
    {[type |-> "status", data |-> d] :
        d \in {Obj([note |-> Str("ok")]), Obj([note |-> Str("busy")]), Null}}

----------------------------------------------------------------------------
(* Handlers *)

Init ==
    /\ phase = "init"
    /\ connectionStatus = "disconnected"
    /\ wsRef = 0
    /\ sockets = <<>>
    /\ reconnectAttempts = 0
    /\ reconnectTimeoutRef = 0
    /\ timers = {}
    /\ driftInterval = "none"
    /\ driftTimers = {}
    /\ parkingSlots = <<>>
    /\ lastMessageTime = 0
    /\ backendStatus = Null
    /\ statusHistory = <<>>
    /\ clicks = 0
    /\ lastEvent = [op |-> "init"]

\* first render: the connect effect calls connectWebSocket(), the drift
\* effect starts the interval
Mount ==
    /\ phase = "init"
    /\ phase' = "mounted"
    /\ connectWebSocket
    /\ UNCHANGED <<reconnectAttempts, reconnectTimeoutRef, timers, parkingSlots>>
    /\ UNCHANGED <<clicks, lastMessageTime, backendStatus, statusHistory>>
    /\ lastEvent' = [op |-> "mount"]

\* faulty variant: a reconnect request starts the retry sequence afresh
ReconnectClick_ResetsAttempts ==
    /\ UNCHANGED phase
    /\ phase = "mounted"
    /\ connectWebSocket
    /\ clicks' = clicks + (Len(sockets') - Len(sockets))
    /\ clicks' <= MaxClicks
    /\ reconnectAttempts' = 0
    /\ UNCHANGED <<lastMessageTime, backendStatus, statusHistory>>
    /\ UNCHANGED <<reconnectTimeoutRef, timers, parkingSlots>>
    /\ lastEvent' = [op |-> "click"]

\* the Reconnect button: onClick={connectWebSocket}
ReconnectClick ==
    /\ UNCHANGED phase
    /\ phase = "mounted"
    /\ connectWebSocket
    /\ clicks' = clicks + (Len(sockets') - Len(sockets))
    /\ clicks' <= MaxClicks
    /\ UNCHANGED <<lastMessageTime, backendStatus, statusHistory>>
    /\ UNCHANGED <<reconnectAttempts, reconnectTimeoutRef, timers, parkingSlots>>
    /\ lastEvent' = [op |-> "click"]

\* the retry timer t fires: connectWebSocket()
RetryTimerFires(t) ==
    /\ UNCHANGED phase
    /\ t \in timers
    /\ timers' = timers \ {t}
    /\ connectWebSocket
    /\ UNCHANGED <<reconnectAttempts, reconnectTimeoutRef, parkingSlots>>
    /\ UNCHANGED <<clicks, lastMessageTime, backendStatus, statusHistory>>
    /\ lastEvent' = [op |-> "timer", timer |-> t.id]

\* faulty variant: reconnectAttempts is not reset
OnOpen_NoReset(s) ==
    /\ UNCHANGED phase
    /\ sockets[s] = "CONNECTING"
    /\ sockets' = [sockets EXCEPT ![s] = "OPEN"]
    /\ SetConnectionStatus("connected")
    /\ UNCHANGED <<reconnectAttempts, wsRef, reconnectTimeoutRef, timers, parkingSlots>>
    /\ UNCHANGED <<clicks, lastMessageTime, backendStatus, statusHistory>>
    /\ lastEvent' = [op |-> "open", sock |-> s]

\* ws.onopen of socket s
OnOpen(s) ==
    /\ UNCHANGED phase
    /\ sockets[s] = "CONNECTING"
    /\ sockets' = [sockets EXCEPT ![s] = "OPEN"]
    /\ SetConnectionStatus("connected")
    /\ reconnectAttempts' = 0
    /\ UNCHANGED <<wsRef, reconnectTimeoutRef, timers, parkingSlots>>
    /\ UNCHANGED <<clicks, lastMessageTime, backendStatus, statusHistory>>
    /\ lastEvent' = [op |-> "open", sock |-> s]

\* wsRef.current.close(1000, 'Component unmounting')
CloseSocket(state) ==
    CASE state = "CONNECTING" -> "CLOSING_CONNECTING"
      [] state = "OPEN" -> "CLOSING_OPEN"
      [] OTHER -> state

\* a state updater threw during the render: no error boundary catches it,
\* React removes the tree and runs the cleanups of the effects
RenderThrows ==
    /\ phase' = "crashed"
    /\ timers' = {t \in timers : t.id # reconnectTimeoutRef}
    /\ sockets' = IF wsRef # 0
                  THEN [sockets EXCEPT ![wsRef] = CloseSocket(sockets[wsRef])]
                  ELSE sockets
    /\ driftInterval' = "none"
    /\ driftTimers' = DriftCleanup(driftTimers, driftInterval)
    /\ UNCHANGED <<connectionStatus, wsRef, reconnectAttempts, reconnectTimeoutRef,
                   parkingSlots, backendStatus, statusHistory>>

\* ws.onmessage of socket s with a frame that parses to message
OnMessage(s, message, now) ==
    /\ sockets[s] = "OPEN"
    /\ lastMessageTime' = now
    /\ IF phase = "mounted" /\ UpdaterThrows(parkingSlots, message)
       THEN RenderThrows
       ELSE /\ parkingSlots' =
                  IF UpdaterThrows(parkingSlots, message)
                  THEN parkingSlots
                  ELSE handleWebSocketMessage(parkingSlots, message, now)
            /\ IF StatusRecorded(message)
               THEN /\ backendStatus' = message.data
                    /\ statusHistory' = AppendStatus(statusHistory, message.data, now)
               ELSE UNCHANGED <<backendStatus, statusHistory>>
            /\ UNCHANGED <<phase, connectionStatus, wsRef, sockets, reconnectAttempts,
                           reconnectTimeoutRef, timers, driftInterval, driftTimers>>
    /\ UNCHANGED clicks
    /\ lastEvent' = [op |-> "message", sock |-> s, message |-> message, now |-> now]

\* faulty variant: a frame that is no message is treated as a protocol error
\* and the socket is closed
OnMalformedFrame_Closes(s, text, now) ==
    /\ sockets[s] = "OPEN"
    /\ sockets' = [sockets EXCEPT ![s] = "CLOSING_OPEN"]
    /\ UNCHANGED <<phase, connectionStatus, wsRef, reconnectAttempts,
                   reconnectTimeoutRef, timers, driftInterval, driftTimers,
                   parkingSlots,
                   lastMessageTime, backendStatus, statusHistory, clicks>>
    /\ lastEvent' = [op |-> "malformed", sock |-> s, text |-> text, now |-> now]

\* ws.onmessage of socket s with a frame that is no message object.  text is
\* "garbage" for a frame JSON.parse throws on; "null" for the JSON null, on
\* which reading message.type throws after setLastMessageTime; "42" for a
\* JSON number, which has no type and no data and falls through the default
\* case.  The catch block logs the errors.
OnMalformedFrame(s, text, now) ==
    /\ sockets[s] = "OPEN"
    /\ lastMessageTime' = IF text = "garbage" THEN lastMessageTime ELSE now
    /\ UNCHANGED <<phase, connectionStatus, wsRef, sockets, reconnectAttempts,
                   reconnectTimeoutRef, timers, driftInterval, driftTimers,
                   parkingSlots,
                   backendStatus, statusHistory, clicks>>
    /\ lastEvent' = [op |-> "malformed", sock |-> s, text |-> text, now |-> now]

\* faulty variant: the error handler counts an attempt
OnError_CountsAttempt(s) ==
    /\ UNCHANGED phase
    /\ sockets[s] \in {"CONNECTING", "OPEN", "CLOSING_CONNECTING"}
    /\ sockets' = [sockets EXCEPT ![s] = "FAILED"]
    /\ SetConnectionStatus("error")
    /\ reconnectAttempts' = Min(reconnectAttempts + 1, maxReconnectAttempts)
    /\ UNCHANGED <<wsRef, reconnectTimeoutRef, timers, parkingSlots>>
    /\ UNCHANGED <<clicks, lastMessageTime, backendStatus, statusHistory>>
    /\ lastEvent' = [op |-> "error", sock |-> s]

\* the connection of socket s fails: ws.onerror; the close event follows
OnError(s) ==
    /\ UNCHANGED phase
    /\ sockets[s] \in {"CONNECTING", "OPEN", "CLOSING_CONNECTING"}
    /\ sockets' = [sockets EXCEPT ![s] = "FAILED"]
    /\ SetConnectionStatus("error")
    /\ UNCHANGED <<wsRef, reconnectAttempts, reconnectTimeoutRef, timers,
                   parkingSlots>>
    /\ UNCHANGED <<clicks, lastMessageTime, backendStatus, statusHistory>>
    /\ lastEvent' = [op |-> "error", sock |-> s]

\* ws.onclose of socket s with event.code = code
OnClose(s, code) ==
    /\ UNCHANGED phase
    /\ \/ sockets[s] \in {"OPEN", "CLOSING_OPEN"}
       \/ sockets[s] = "FAILED" /\ code = ABNORMAL_CLOSURE
    /\ sockets' = [sockets EXCEPT ![s] = "CLOSED"]
    /\ SetConnectionStatus("disconnected")
    /\ IF ShouldRetry(code, reconnectAttempts)
       THEN /\ reconnectAttempts' = reconnectAttempts + 1
            /\ timers' = timers \cup {[id |-> s, delay |-> BackoffDelay(reconnectAttempts)]}
            /\ reconnectTimeoutRef' = s
       ELSE UNCHANGED <<reconnectAttempts, timers, reconnectTimeoutRef>>
    /\ UNCHANGED <<wsRef, parkingSlots>>
    /\ UNCHANGED <<clicks, lastMessageTime, backendStatus, statusHistory>>
    /\ lastEvent' = [op |-> "close", sock |-> s, code |-> code]

\* unmount: the cleanups of the connect effect and of the drift effect
Unmount ==
    /\ phase = "mounted"
    /\ phase' = "unmounted"
    /\ timers' = {t \in timers : t.id # reconnectTimeoutRef}
    /\ sockets' = IF wsRef # 0
                  THEN [sockets EXCEPT ![wsRef] = CloseSocket(sockets[wsRef])]
                  ELSE sockets
    /\ driftInterval' = "none"
    /\ driftTimers' = DriftCleanup(driftTimers, driftInterval)
    /\ UNCHANGED <<connectionStatus, wsRef, reconnectAttempts, reconnectTimeoutRef,
                   parkingSlots>>
    /\ UNCHANGED <<clicks, lastMessageTime, backendStatus, statusHistory>>
    /\ lastEvent' = [op |-> "unmount"]

\* the drift interval fires: simulateRealisticParking()
DriftTick(random, now) ==
    /\ \E captured \in driftTimers :
          parkingSlots' = IF captured = "connected"
                          THEN parkingSlots
                          ELSE simulateRealisticParking(parkingSlots, random, now)
    /\ UNCHANGED <<phase, connectionStatus, wsRef, sockets, reconnectAttempts,
                   reconnectTimeoutRef, timers, driftInterval, driftTimers>>
    /\ UNCHANGED <<clicks, lastMessageTime, backendStatus, statusHistory>>
    /\ lastEvent' = [op |-> "drift", random |-> random, now |-> now]

\* the drift simulator is followed while every duration is below max
DurationsBelow(max) ==
    \A i \in 1..Len(parkingSlots) : NumOr(parkingSlots[i], "duration", 0) < max

\* a call of connectWebSocket() stays within the socket budget
WithinBudget ==
    (wsRef # 0 /\ readyState(wsRef) = "OPEN") \/ Len(sockets) < MaxSockets

\* The error event and the close event of a failed connection are dispatched
\* by one task of the event loop: no other handler runs between the two.
NoCloseDue == \A s \in SocketIds : sockets[s] # "FAILED"

Next ==
    \/ NoCloseDue /\ Mount
    \/ NoCloseDue /\ WithinBudget /\ ReconnectClick
    \/ \E t \in timers : NoCloseDue /\ WithinBudget /\ RetryTimerFires(t)
    \/ \E s \in SocketIds : NoCloseDue /\ OnOpen(s)
    \/ \E s \in SocketIds, m \in ConnFrames, now \in Times :
          NoCloseDue /\ OnMessage(s, m, now)
    \/ \E s \in SocketIds, text \in {"garbage", "null"}, now \in Times :
          NoCloseDue /\ OnMalformedFrame(s, text, now)
    \/ \E s \in SocketIds : NoCloseDue /\ OnError(s)
    \/ \E s \in SocketIds, code \in CloseCodes :
          (NoCloseDue \/ sockets[s] = "FAILED") /\ OnClose(s, code)
    \/ NoCloseDue /\ Unmount
    \/ \E random \in [1..Len(parkingSlots) -> RandomSamples], now \in Times :
          NoCloseDue /\ DurationsBelow(MaxDuration) /\ DriftTick(random, now)

Spec == Init /\ [][Next]_vars

\* The retry sequence alone: every connection attempt fails before it opens.
\* No socket opens, so reconnectAttempts is never reset and the retry ceiling
\* bounds the sockets created.
NextRetry ==
    \/ NoCloseDue /\ Mount
    \/ NoCloseDue /\ ReconnectClick
    \/ \E t \in timers : NoCloseDue /\ RetryTimerFires(t)
    \/ \E s \in SocketIds : NoCloseDue /\ OnError(s)
    \/ \E s \in SocketIds : OnClose(s, ABNORMAL_CLOSURE)

SpecRetry == Init /\ [][NextRetry]_vars

\* what happens without the user: the mount, the retry timers and the socket
\* events
NextAuto ==
    \/ NoCloseDue /\ Mount
    \/ \E t \in timers : NoCloseDue /\ RetryTimerFires(t)
    \/ \E s \in SocketIds : NoCloseDue /\ OnError(s)
    \/ \E s \in SocketIds : OnClose(s, ABNORMAL_CLOSURE)

\* The retry sequence with the scheduling of the event loop: a pending timer
\* fires, and an attempt that is going to fail delivers its error and close
\* events.  A reconnect request may or may not come.
SpecRetryFair == Init /\ [][NextRetry]_vars /\ WF_vars(NextAuto)

\* a call of connectWebSocket() stays within the socket budget of SpecReopen
ReopenBudget ==
    (wsRef # 0 /\ readyState(wsRef) = "OPEN") \/ Len(sockets) < MaxReopenSockets

\* The connection manager alone, followed for enough sockets to exhaust the
\* retries: the socket events, the retry timer, reconnect requests and
\* heartbeat frames; the store stays empty.
NextReopen ==
    \/ NoCloseDue /\ Mount
    \/ NoCloseDue /\ ReopenBudget /\ ReconnectClick
    \/ \E t \in timers : NoCloseDue /\ ReopenBudget /\ RetryTimerFires(t)
    \/ \E s \in SocketIds : NoCloseDue /\ OnOpen(s)
    \/ \E s \in SocketIds, now \in Times :
          NoCloseDue /\ OnMessage(s, [type |-> "ping", data |-> Null], now)
    \/ \E s \in SocketIds : NoCloseDue /\ OnError(s)
    \/ \E s \in SocketIds, code \in CloseCodes :
          (NoCloseDue \/ sockets[s] = "FAILED") /\ OnClose(s, code)

SpecReopen == Init /\ [][NextReopen]_vars

\* The dispatcher alone, on one open socket: the store starts from any
\* content a snapshot can have left in it.
InitStore ==
    /\ phase = "mounted"
    /\ connectionStatus = "connected"
    /\ wsRef = 1
    /\ sockets = <<"OPEN">>
    /\ reconnectAttempts = 0
    /\ reconnectTimeoutRef = 0
    /\ timers = {}
    /\ driftInterval = "none"
    /\ driftTimers = {}
    /\ parkingSlots \in SeqsUpTo(SlotInputs, MaxSlots)
    /\ lastMessageTime \in Times
    /\ backendStatus = Null
    /\ statusHistory = <<>>
    /\ clicks = 0
    /\ lastEvent = [op |-> "open", sock |-> 1]

NextStore ==
    \E m \in StoreFrames, now \in Times : OnMessage(1, m, now)

SpecStore == InitStore /\ [][NextStore]_vars

\* The snapshot feed: a freshly opened socket, the store still empty, and the
\* frames that carry, or fail to carry, a snapshot.
InitSnapshot ==
    /\ phase = "mounted"
    /\ connectionStatus = "connected"
    /\ wsRef = 1
    /\ sockets = <<"OPEN">>
    /\ reconnectAttempts = 0
    /\ reconnectTimeoutRef = 0
    /\ timers = {}
    /\ driftInterval = "none"
    /\ driftTimers = {}
    /\ parkingSlots = <<>>
    /\ lastMessageTime = 0
    /\ backendStatus = Null
    /\ statusHistory = <<>>
    /\ clicks = 0
    /\ lastEvent = [op |-> "open", sock |-> 1]

NextSnapshot ==
    \/ \E m \in SnapshotFrames, now \in Times : OnMessage(1, m, now)
    \/ \E text \in {"garbage", "null", "42"}, now \in Times :
          OnMalformedFrame(1, text, now)

SpecSnapshot == InitSnapshot /\ [][NextSnapshot]_vars

\* The drift simulator alone: the socket was closed with the normal code, no
\* retry is pending, and the interval ticks over any store a feed can have
\* left behind.
InitDrift ==
    /\ phase = "mounted"
    /\ connectionStatus = "disconnected"
    /\ wsRef = 1
    /\ sockets = <<"CLOSED">>
    /\ reconnectAttempts = 0
    /\ reconnectTimeoutRef = 0
    /\ timers = {}
    /\ driftInterval = "disconnected"
    /\ driftTimers = {"disconnected"}
    /\ parkingSlots \in SeqsUpTo(DriftInputs, MaxSlots)
    /\ lastMessageTime \in Times
    /\ backendStatus = Null
    /\ statusHistory = <<>>
    /\ clicks = 0
    /\ lastEvent = [op |-> "close", sock |-> 1, code |-> NORMAL_CLOSURE]

NextDrift ==
    \E random \in [1..Len(parkingSlots) -> RandomSamples], now \in Times :
       DurationsBelow(MaxDriftDuration) /\ DriftTick(random, now)

SpecDrift == InitDrift /\ [][NextDrift]_vars

\* The drift simulator around the long-stay and long-vacant thresholds: one
\* slot whose duration is near 10 or 60 minutes, ticked with samples that
\* tell the scaled probability from the unscaled one.
InitThreshold ==
    /\ phase = "mounted"
    /\ connectionStatus = "disconnected"
    /\ wsRef = 1
    /\ sockets = <<"CLOSED">>
    /\ reconnectAttempts = 0
    /\ reconnectTimeoutRef = 0
    /\ timers = {}
    /\ driftInterval = "disconnected"
    /\ driftTimers = {"disconnected"}
    /\ parkingSlots \in {<<r>> : r \in ThresholdInputs}
    /\ lastMessageTime \in Times
    /\ backendStatus = Null
    /\ statusHistory = <<>>
    /\ clicks = 0
    /\ lastEvent = [op |-> "close", sock |-> 1, code |-> NORMAL_CLOSURE]

NextThreshold ==
    \E random \in [1..Len(parkingSlots) -> ThresholdSamples], now \in Times :
       DurationsBelow(MaxThresholdDuration) /\ DriftTick(random, now)

SpecThreshold == InitThreshold /\ [][NextThreshold]_vars

\* The store under both of its writers: the delta feed on an open socket, or
\* the drift interval after the socket has closed.
SpecMirror == (InitStore \/ InitDrift) /\ [][NextStore \/ NextDrift]_vars

\* The status feed: status frames on a freshly opened socket, followed until
\* the history holds MaxStatus payloads.
NextStatus ==
    \E m \in StatusFrames, now \in Times :
       /\ StatusRecorded(m) => Len(statusHistory) < MaxStatus
       /\ OnMessage(1, m, now)

SpecStatus == InitSnapshot /\ [][NextStatus]_vars

\* A long status feed: MaxHistoryFrames status frames on a freshly opened
\* socket, one per tick of the clock, so that the timestamp of an entry of
\* the history tells the arrival of its frame.
NextHistory ==
    \E m \in HistoryFrames :
       /\ lastMessageTime < MaxHistoryFrames
       /\ OnMessage(1, m, lastMessageTime + 1)

SpecHistory == InitSnapshot /\ [][NextHistory]_vars

----------------------------------------------------------------------------
(* Properties *)

ClosedSockets == {s \in SocketIds : sockets[s] = "CLOSED"}

\* the delays of the first five retries, in ms
BackoffTable == <<1000, 2000, 4000, 8000, 16000>>

\* the step is the close event of socket s with an abnormal code
AbnormalCloseOf(s) ==
    /\ lastEvent' = [op |-> "close", sock |-> s, code |-> ABNORMAL_CLOSURE]
    /\ sockets[s] # "CLOSED"
    /\ sockets'[s] = "CLOSED"

\* C1: when every connection attempt fails, the k-th abnormal closure
\* (k = 1..5) sets the status to disconnected, raises reconnectAttempts to k
\* and schedules one retry with delay 1, 2, 4, 8, 16 s; from the 6th closure
\* on no retry is scheduled.
C1_BackoffSequence ==
    [][\A s \in SocketIds :
          AbnormalCloseOf(s) =>
            LET k == Cardinality(ClosedSockets) + 1
            IN  /\ connectionStatus' = "disconnected"
                /\ k <= 5 =>
                     /\ reconnectAttempts = k - 1
                     /\ reconnectAttempts' = k
                     /\ timers' = timers \cup {[id |-> s, delay |-> BackoffTable[k]]}
                     /\ Cardinality(timers') = Cardinality(timers) + 1
                /\ k >= 6 =>
                     /\ timers' = timers
                     /\ reconnectAttempts' = maxReconnectAttempts]_vars

\* the sixth consecutive abnormal closure has happened and scheduled nothing
C1_Witness ==
    /\ lastEvent.op = "close"
    /\ lastEvent.code = ABNORMAL_CLOSURE
    /\ Cardinality(ClosedSockets) = 6
    /\ reconnectAttempts = 5
    /\ reconnectTimeoutRef # lastEvent.sock

\* C2: at most one socket created by the manager is connecting or open, and
\* at most one retry timer is pending.
C2_OneSocketOneTimer ==
    /\ Cardinality(ActiveSockets) <= 1
    /\ Cardinality(timers) <= 1

\* the drift interval is set and its tick would run the store update
DriftActive == driftInterval \notin {"none", "connected"}

\* C3: the drift interval is never active while a socket is open and
\* delivers frames to the store.
C3_NoDriftWhileLive ==
    ~(DriftActive /\ \E s \in SocketIds : sockets[s] = "OPEN")

RetriesExhausted ==
    /\ lastEvent.op = "close"
    /\ lastEvent.code # NORMAL_CLOSURE
    /\ reconnectAttempts = maxReconnectAttempts
    /\ reconnectTimeoutRef # lastEvent.sock

\* C5: once the ceiling is reached and the connection has closed abnormally,
\* only an explicit reconnect request creates a socket or sets the status to
\* connecting.
C5_NoConnectAfterExhaustion ==
    [][(RetriesExhausted /\ lastEvent'.op # "click")
         => /\ Len(sockets') = Len(sockets)
            /\ connectionStatus' # "connecting"]_vars

\* C6: a close event with code 1000 sets the status to disconnected, schedules
\* no retry and leaves reconnectAttempts unchanged, whatever its value.
C6_CleanCloseNoRetry ==
    [][\A s \in SocketIds :
          (/\ lastEvent' = [op |-> "close", sock |-> s, code |-> NORMAL_CLOSURE]
           /\ sockets[s] # "CLOSED"
           /\ sockets'[s] = "CLOSED")
          => /\ connectionStatus' = "disconnected"
             /\ timers' = timers
             /\ reconnectTimeoutRef' = reconnectTimeoutRef
             /\ reconnectAttempts' = reconnectAttempts]_vars

\* a clean close has arrived while reconnectAttempts was not 0
C6_Witness ==
    /\ lastEvent.op = "close"
    /\ lastEvent.code = NORMAL_CLOSURE
    /\ reconnectAttempts > 0
    /\ connectionStatus = "disconnected"

\* C7: every open event sets the status to connected and reconnectAttempts
\* to 0, whatever reconnectAttempts was.
C7_OpenResetsAttempts ==
    [][\A s \in SocketIds :
          (sockets[s] = "CONNECTING" /\ sockets'[s] = "OPEN")
          => /\ connectionStatus' = "connected"
             /\ reconnectAttempts' = 0]_vars

\* a socket has opened after at least two failed attempts
C7_Witness ==
    /\ lastEvent.op = "open"
    /\ Cardinality(ClosedSockets) >= 2
    /\ Cardinality(timers) = 0
    /\ reconnectAttempts = 0

\* the held socket is open
HeldSocketOpen == wsRef # 0 /\ readyState(wsRef) = "OPEN"

\* C8: a connect request made while the held socket is open creates no socket
\* and changes neither the status, reconnectAttempts, the store nor the
\* pending timers (but for the timer whose firing made the request).
C8_ConnectWhileOpenIsNoOp ==
    [][(HeldSocketOpen /\ lastEvent'.op \in {"click", "timer"})
         => /\ sockets' = sockets
            /\ wsRef' = wsRef
            /\ connectionStatus' = connectionStatus
            /\ driftInterval' = driftInterval
            /\ reconnectAttempts' = reconnectAttempts
            /\ parkingSlots' = parkingSlots
            /\ IF lastEvent'.op = "click"
               THEN timers' = timers
               ELSE timers' = {t \in timers : t.id # lastEvent'.timer}]_vars

\* a reconnect click has been made while the held socket was open
C8_Witness ==
    /\ lastEvent.op = "click"
    /\ HeldSocketOpen
    /\ connectionStatus = "connected"

\* C9: after teardown no retry timer and no drift interval is pending and no
\* socket is created.
C9_TeardownIsFinal ==
    [][phase' = "unmounted"
         => /\ timers' = {}
            /\ driftInterval' = "none"
            /\ driftTimers' = {}
            /\ phase = "unmounted" => Len(sockets') = Len(sockets)]_vars

\* the update has no record in slots with its id
Unmatched(slots, update) == FindIndex(slots, update) = 0

\* the sequence of ids of the store (a record without id counts as "")
IdsOf(slots) == [i \in 1..Len(slots) |-> IF Has(slots[i], "id") THEN slots[i].id ELSE ""]

\* the step applies message to the store
Applies(message) ==
    /\ lastEvent'.op = "message"
    /\ lastEvent'.message = message

\* C10: a delta whose id matches no record creates no record and changes
\* nothing: every delta frame keeps the number of records and their ids, a
\* bulk_update has the effect of its matching deltas alone, and a
\* single_update whose id matches no record leaves the store as it was.
C10_UnmatchedDeltaIsNoOp ==
    [][\A m \in StoreFrames :
          (Applies(m) /\ m.type \in {"bulk_update", "single_update"})
          => LET updates == IF m.type = "bulk_update"
                            THEN m.data.fields.updates.items
                            ELSE <<m.data.fields>>
                 matching == SelectSeq(updates, LAMBDA u : ~Unmatched(parkingSlots, u))
             IN  /\ Len(parkingSlots') = Len(parkingSlots)
                 /\ IdsOf(parkingSlots') = IdsOf(parkingSlots)
                 /\ m.type = "bulk_update" =>
                      parkingSlots' = BulkUpdate(parkingSlots, matching, Len(matching),
                                                 lastEvent'.now)
                 /\ Len(matching) = 0 => parkingSlots' = parkingSlots]_vars

\* a batch with a matching and a non-matching delta has been applied to a
\* store of two records
C10_Witness ==
    /\ lastEvent.op = "message"
    /\ lastEvent.message.type = "bulk_update"
    /\ Len(parkingSlots) = 2
    /\ \E i, j \in 1..Len(lastEvent.message.data.fields.updates.items) :
          /\ Unmatched(parkingSlots, lastEvent.message.data.fields.updates.items[i])
          /\ ~Unmatched(parkingSlots, lastEvent.message.data.fields.updates.items[j])

\* the set of ids of the store (a record without id counts as "")
IdSet(slots) == {IdsOf(slots)[i] : i \in 1..Len(slots)}

\* the records a snapshot payload carries: the elements of the `slots` list,
\* of the `displays` list or of the list that data is, or the object values
\* of the `displays` mapping
SnapshotSize(data) ==
    IF IsArray(Field(data, "slots")) THEN Len(Field(data, "slots").items)
    ELSE IF IsArray(Field(data, "displays")) THEN Len(Field(data, "displays").items)
    ELSE IF IsObject(Field(data, "displays"))
    THEN Cardinality({i \in 1..Len(Field(data, "displays").entries) :
                         Field(data, "displays").entries[i].object})
    ELSE IF IsArray(data) THEN Len(data.items)
    ELSE 0

\* the id a record of a list is known by: its id, else its slot_id, else
\* 'Unknown'; a record of the `slots` list is known by its id alone
ListIds(items, raw) ==
    {IF raw THEN (IF Has(items[i], "id") THEN items[i].id ELSE "")
            ELSE StrOr(items[i], "id", "slot_id", "Unknown") : i \in 1..Len(items)}

\* the ids of the records a snapshot payload carries
SnapshotIds(data) ==
    IF IsArray(Field(data, "slots")) THEN ListIds(Field(data, "slots").items, TRUE)
    ELSE IF IsArray(Field(data, "displays"))
    THEN ListIds(Field(data, "displays").items, FALSE)
    ELSE IF IsObject(Field(data, "displays"))
    THEN {Field(data, "displays").entries[i].key :
             i \in {j \in 1..Len(Field(data, "displays").entries) :
                       Field(data, "displays").entries[j].object}}
    ELSE IF IsArray(data) THEN ListIds(data.items, FALSE)
    ELSE {}

\* the step applies an initial_data frame that carries a snapshot
AppliesSnapshot(data) ==
    /\ data \in SnapshotPayloads
    /\ Applies([type |-> "initial_data", data |-> data])

\* C11 as stated: after an initial_data frame with a snapshot of any length,
\* the ids of the store are exactly the ids of the snapshot.
C11_SnapshotIdsAnyLength ==
    [][\A data \in SnapshotPayloads :
          AppliesSnapshot(data) => IdSet(parkingSlots') = SnapshotIds(data)]_vars

\* C11: after an initial_data frame with a snapshot of at least one record,
\* the store holds one record per record of the snapshot and its ids are
\* exactly the ids of the snapshot, whatever the store held before; a
\* snapshot without records leaves the store as it is.
C11_SnapshotReplacesIds ==
    [][\A data \in SnapshotPayloads :
          AppliesSnapshot(data) =>
            IF SnapshotSize(data) > 0
            THEN /\ IdSet(parkingSlots') = SnapshotIds(data)
                 /\ Len(parkingSlots') = SnapshotSize(data)
            ELSE parkingSlots' = parkingSlots]_vars

\* a snapshot has replaced a store that held an id the snapshot lacks
C11_Witness ==
    /\ lastEvent.op = "message"
    /\ lastEvent.message.type = "initial_data"
    /\ lastEvent.message.data \in SnapshotPayloads
    /\ SnapshotSize(lastEvent.message.data) = 1
    /\ IdSet(parkingSlots) = {"B2"}
    /\ lastMessageTime = 7

\* r stores element e with every field defined: a field e carries is kept,
\* a field it lacks has its default
StoredWithDefaults(r, e, now) ==
    /\ {"state", "zone", "floor", "duration", "lastUpdated"} \subseteq DOMAIN r
    /\ r.state = (IF Has(e, "state") THEN e.state ELSE "free")
    /\ r.zone = (IF Has(e, "zone") THEN e.zone ELSE "A")
    /\ r.floor = (IF Has(e, "floor") THEN e.floor ELSE 1)
    /\ r.duration = (IF Has(e, "duration") THEN e.duration ELSE 0)
    /\ r.lastUpdated = (IF Has(e, "lastUpdated") THEN e.lastUpdated ELSE now)

\* C12: after an initial_data frame whose data has a `slots` list, every
\* record stored has all fields defined, a missing state defaulted to free,
\* zone to A, floor to 1, duration to 0 and lastUpdated to the current time.
C12_SlotsListDefaulted ==
    [][\A data \in SnapshotPayloads :
          (/\ AppliesSnapshot(data)
           /\ IsArray(Field(data, "slots"))
           /\ Len(Field(data, "slots").items) > 0)
            => /\ Len(parkingSlots') = Len(Field(data, "slots").items)
               /\ \A i \in 1..Len(parkingSlots') :
                     StoredWithDefaults(parkingSlots'[i],
                                        Field(data, "slots").items[i],
                                        lastEvent'.now)]_vars

MaxOf(S) == CHOOSE x \in S : \A y \in S : y <= x

\* the deltas of a batch that are applied to record i of the store: those
\* whose id finds record i
HitsOf(slots, updates, i) ==
    SelectSeq(updates, LAMBDA u : FindIndex(slots, u) = i)

\* the lastUpdated a delta gives the record it is merged onto; zeroIsAbsent
\* says whether a lastUpdated of 0 counts as omitted
StampOf(delta, now, zeroIsAbsent) ==
    IF Has(delta, "lastUpdated") /\ ~(zeroIsAbsent /\ delta.lastUpdated = 0)
    THEN delta.lastUpdated
    ELSE now

\* record r has become r2 by merging the deltas hits in order: a field is
\* that of the last delta that carries it, else that of r; no field is
\* dropped; lastUpdated is that of the last delta
MergedOnto(r, r2, hits, now, zeroIsAbsent) ==
    IF Len(hits) = 0
    THEN r2 = r
    ELSE /\ DOMAIN r2 = DOMAIN r \cup UNION {DOMAIN hits[k] : k \in 1..Len(hits)}
                                 \cup {"lastUpdated"}
         /\ \A f \in DOMAIN r2 \ {"lastUpdated"} :
               LET carriers == {k \in 1..Len(hits) : Has(hits[k], f)}
               IN  r2[f] = IF carriers = {} THEN r[f] ELSE hits[MaxOf(carriers)][f]
         /\ r2.lastUpdated = StampOf(hits[Len(hits)], now, zeroIsAbsent)

\* the step applies a bulk_update batch and merges it as MergedOnto says
BulkMerges(zeroIsAbsent) ==
    \A m \in StoreFrames :
       (Applies(m) /\ m.type = "bulk_update") =>
          /\ Len(parkingSlots') = Len(parkingSlots)
          /\ \A i \in 1..Len(parkingSlots) :
                MergedOnto(parkingSlots[i], parkingSlots'[i],
                           HitsOf(parkingSlots, m.data.fields.updates.items, i),
                           lastEvent'.now, zeroIsAbsent)

\* C13 as stated: a matched bulk_update delta overwrites exactly the fields
\* it carries and sets lastUpdated to its own value, or to the current time
\* if it has none; all else in the store is unchanged.
C13_DeltaOverwritesPresentFields == [][BulkMerges(FALSE)]_vars

\* C13: a matched bulk_update delta overwrites exactly the fields it carries
\* and sets lastUpdated to its own value, or to the current time if it has
\* none or its value is 0; every other field of the record and every other
\* record of the store is unchanged.
C13_DeltaMergesOntoRecord == [][BulkMerges(TRUE)]_vars

\* a batch of two deltas has been merged onto two records: one delta with a
\* lastUpdated of its own, one with a lastUpdated of 0
C13_Witness ==
    /\ lastEvent.op = "message"
    /\ lastEvent.message.type = "bulk_update"
    /\ Len(lastEvent.message.data.fields.updates.items) = 2
    /\ Len(parkingSlots) = 2
    /\ \E i, j \in 1..2 :
          /\ parkingSlots[i] = [id |-> "B2", state |-> "occupied", zone |-> "B",
                                floor |-> 2, lastUpdated |-> 9, duration |-> 0]
          /\ parkingSlots[j] = [id |-> "A1", state |-> "occupied", zone |-> "A",
                                floor |-> 1, lastUpdated |-> lastEvent.now,
                                duration |-> 5]

\* record i of the store has another state after the step than before
StateChanged(i) ==
    /\ i <= Len(parkingSlots')
    /\ ~SameField(parkingSlots[i], parkingSlots'[i], "state")

\* C14: a drift tick that flips the state of a slot sets the duration of that
\* slot to 0 and its lastUpdated to the tick time in the same update.
C14_DriftFlipResetsDuration ==
    [][lastEvent'.op = "drift" =>
          \A i \in 1..Len(parkingSlots) :
             StateChanged(i) =>
                /\ parkingSlots'[i].duration = 0
                /\ parkingSlots'[i].lastUpdated = lastEvent'.now]_vars

\* a tick has flipped a slot that had been occupied for five minutes and left
\* its neighbour counting
C14_Witness ==
    /\ lastEvent.op = "drift"
    /\ Len(parkingSlots) = 2
    /\ parkingSlots[1] = [id |-> "A1", state |-> "free", zone |-> "A", floor |-> 1,
                          lastUpdated |-> lastEvent.now, duration |-> 0]
    /\ parkingSlots[2] = [id |-> "A1", state |-> "occupied", zone |-> "A", floor |-> 1,
                          lastUpdated |-> 3, duration |-> 6]

\* C15: after a bulk_update or single_update delta (or a drift flip) that
\* changes the state of a slot, the duration of that slot is 0; a slot whose
\* state is not changed never has its duration decreased.
C15_StateChangeResetsDuration ==
    [][(/\ lastEvent'.op \in {"message", "drift"}
        /\ lastEvent'.op = "message" =>
              lastEvent'.message.type \in {"bulk_update", "single_update"})
          => \A i \in 1..Len(parkingSlots) :
                IF StateChanged(i)
                THEN NumOr(parkingSlots'[i], "duration", 0) = 0
                ELSE NumOr(parkingSlots'[i], "duration", 0)
                        >= NumOr(parkingSlots[i], "duration", 0)]_vars

\* C16: no two records of the store carry the same id.
C16_UniqueIds ==
    \A i, j \in 1..Len(parkingSlots) :
       (/\ Has(parkingSlots[i], "id")
        /\ Has(parkingSlots[j], "id")
        /\ parkingSlots[i].id = parkingSlots[j].id) => i = j

\* C17: a frame that does not parse to a message is dropped: the status, the
\* held socket, the attempt counter, the retry timers and the store are
\* unchanged, the socket stays open, and a well-formed frame on the same
\* socket is still processed afterwards.
C17_MalformedFrameDropped ==
    /\ [][lastEvent'.op = "malformed" =>
            /\ connectionStatus' = connectionStatus
            /\ wsRef' = wsRef
            /\ sockets' = sockets
            /\ reconnectAttempts' = reconnectAttempts
            /\ reconnectTimeoutRef' = reconnectTimeoutRef
            /\ timers' = timers
            /\ parkingSlots' = parkingSlots
            /\ phase' = phase]_vars
    /\ [](lastEvent.op = "malformed" =>
            /\ sockets[lastEvent.sock] = "OPEN"
            /\ \A m \in ConnFrames : ENABLED OnMessage(lastEvent.sock, m, lastEvent.now))

\* a frame that is no message has arrived on the open socket of a connected
\* view that holds slots
C17_Witness ==
    /\ lastEvent.op = "malformed"
    /\ lastEvent.text = "garbage"
    /\ connectionStatus = "connected"
    /\ wsRef = lastEvent.sock
    /\ Len(parkingSlots) > 0

\* frames of the snapshot feed whose data yields no slot record: initial_data
\* without slots, displays or list, bulk_update without an updates list,
\* single_update for an id no record has
NoSlotFrames ==
    {[type |-> "initial_data", data |-> d] : d \in EmptyPayloads}
      \cup {[type |-> "bulk_update", data |-> Obj([note |-> Str("ok")])],
            [type |-> "single_update", data |-> Obj([id |-> "Q7", state |-> "free"])]}

\* C18: a frame whose data yields no slot record leaves the store and the
\* connection state as they are and has no error outcome: the view stays
\* mounted and the socket open.
C18_NoSlotsIsNoOp ==
    [][\A m \in NoSlotFrames :
          Applies(m) =>
             /\ parkingSlots' = parkingSlots
             /\ connectionStatus' = connectionStatus
             /\ reconnectAttempts' = reconnectAttempts
             /\ timers' = timers
             /\ wsRef' = wsRef
             /\ sockets' = sockets
             /\ phase' = phase]_vars

\* C19: a status frame whose data carries slot records in one of the generic
\* shapes replaces the store with the records extracted.
C19_StatusSnapshotReplaces ==
    [][\A m \in StatusFrames :
          (Applies(m) /\ SnapshotSize(m.data) > 0) =>
             /\ Len(parkingSlots') = SnapshotSize(m.data)
             /\ IdSet(parkingSlots') = SnapshotIds(m.data)]_vars

\* the step records the payload data as the current backend status and as
\* the newest entry of the history, which keeps its ten newest entries
Surfaced(data, now) ==
    LET n == Len(statusHistory)
        n2 == Len(statusHistory')
    IN  /\ backendStatus' = data
        /\ n2 = Min(n + 1, 10)
        /\ statusHistory'[n2] = [timestamp |-> now, data |-> data]
        /\ \A k \in 1..(n2 - 1) : statusHistory'[k] = statusHistory[k + n + 1 - n2]

\* C20 as stated: the payload of every status frame is recorded, whatever its
\* shape.
C20_StatusAlwaysSurfaced ==
    [][\A m \in StatusFrames : Applies(m) => Surfaced(m.data, lastEvent'.now)]_vars

\* C20: the payload of every status frame whose data is an object or a list
\* is recorded as the current backend status and appended to the history,
\* whether or not slot data was found in it; a status frame whose data is
\* null or a primitive changes neither.
C20_StatusObjectSurfaced ==
    [][\A m \in StatusFrames :
          Applies(m) =>
             IF m.data.kind \in {"object", "array"}
             THEN Surfaced(m.data, lastEvent'.now)
             ELSE UNCHANGED <<backendStatus, statusHistory>>]_vars

\* a payload without slot data has been recorded after another one
C20_Witness ==
    /\ lastEvent.op = "message"
    /\ lastEvent.message.type = "status"
    /\ backendStatus = Obj([note |-> Str("ok")])
    /\ Len(statusHistory) = 2
    /\ statusHistory[1].data # backendStatus
    /\ statusHistory[2] = [timestamp |-> lastEvent.now, data |-> backendStatus]

\* C21: a frame of type system_status, ping or error leaves the store as it
\* is, whatever the store and the payload.
C21_LoggedTypesKeepStore ==
    [][(/\ lastEvent'.op = "message"
        /\ lastEvent'.message.type \in {"system_status", "ping", "error"})
          => parkingSlots' = parkingSlots]_vars

\* a ping whose payload carries a slots list has arrived at a store that
\* holds another record
C21_Witness ==
    /\ lastEvent.op = "message"
    /\ lastEvent.message.type = "ping"
    /\ IsArray(Field(lastEvent.message.data, "slots"))
    /\ Len(Field(lastEvent.message.data, "slots").items) = 1
    /\ IdSet(parkingSlots) = {"B2"}

\* the step applies a frame of a type the dispatcher has no case for
AppliesUnknown(data) == Applies([type |-> "telemetry", data |-> data])

\* C22: a frame of an unrecognized type is handled as initial_data is: the
\* records extracted from a slots list, a displays list or mapping, or data
\* as a list replace the store, with the same field defaulting; without slot
\* data the store is unchanged.
C22_UnknownTypeAsInitialData ==
    [][\A data \in OtherPayloads :
          AppliesUnknown(data) =>
             parkingSlots' = handleWebSocketMessage(parkingSlots,
                                [type |-> "initial_data", data |-> data],
                                lastEvent'.now)]_vars

\* records a and b are equal in every field but the id and the state, which
\* is free in a and available in b
FreeAvailableTwins(a, b) ==
    /\ DOMAIN a = DOMAIN b
    /\ Has(a, "state")
    /\ a.state = "free"
    /\ b.state = "available"
    /\ \A f \in DOMAIN a \ {"id", "state"} : a[f] = b[f]

\* C23: a drift tick treats a free slot and an available slot that are
\* otherwise equal alike: on the same random sample both flip to occupied,
\* or neither flips, and their durations and timestamps stay equal.
C23_FreeAvailableAlike ==
    [][lastEvent'.op = "drift" =>
          \A i, j \in 1..Len(parkingSlots) :
             (/\ FreeAvailableTwins(parkingSlots[i], parkingSlots[j])
              /\ lastEvent'.random[i] = lastEvent'.random[j])
                => /\ \/ /\ parkingSlots'[i].state = "occupied"
                         /\ parkingSlots'[j].state = "occupied"
                      \/ /\ parkingSlots'[i].state = "free"
                         /\ parkingSlots'[j].state = "available"
                   /\ parkingSlots'[i].duration = parkingSlots'[j].duration
                   /\ parkingSlots'[i].lastUpdated = parkingSlots'[j].lastUpdated]_vars

\* C24: an error event sets the status to error and leaves the attempt
\* counter, the retry timers, the held socket and the store unchanged; a
\* retry timer is only ever added by a close event, and a close event that
\* arrives while the status is error applies the retry rule: with a code
\* other than 1000 and fewer than 5 attempts it counts an attempt and
\* schedules the retry with the backoff delay, else it schedules nothing.
C24_ErrorLeavesRetryToClose ==
    [][/\ lastEvent'.op = "error" =>
            /\ connectionStatus' = "error"
            /\ reconnectAttempts' = reconnectAttempts
            /\ timers' = timers
            /\ reconnectTimeoutRef' = reconnectTimeoutRef
            /\ wsRef' = wsRef
            /\ parkingSlots' = parkingSlots
       /\ ~(timers' \subseteq timers) => lastEvent'.op = "close"
       /\ (lastEvent'.op = "close" /\ connectionStatus = "error") =>
            /\ connectionStatus' = "disconnected"
            /\ IF lastEvent'.code # NORMAL_CLOSURE
                    /\ reconnectAttempts < maxReconnectAttempts
               THEN /\ reconnectAttempts' = reconnectAttempts + 1
                    /\ timers' = timers \cup
                          {[id |-> lastEvent'.sock,
                            delay |-> Min(BACKOFF_BASE * Pow2(reconnectAttempts),
                                          BACKOFF_CAP)]}
               ELSE /\ reconnectAttempts' = reconnectAttempts
                    /\ timers' = timers]_vars

\* the socket of the first retry has failed: the status is error, the
\* attempt counter still 1 and no retry timer pending
C24_Witness ==
    /\ lastEvent.op = "error"
    /\ connectionStatus = "error"
    /\ sockets[lastEvent.sock] = "FAILED"
    /\ wsRef = lastEvent.sock
    /\ reconnectAttempts = 1
    /\ timers = {}

\* C25: the attempt counter only ever decreases in an open event, which sets
\* it to 0; a reconnect request, a firing retry timer, an error event, a
\* close with code 1000 and an inbound frame leave it as it is, so a
\* reconnect request made after the retries are exhausted starts at 5.
C25_OnlyOpenResetsAttempts ==
    [][/\ reconnectAttempts' < reconnectAttempts =>
            (lastEvent'.op = "open" /\ reconnectAttempts' = 0)
       /\ (\/ lastEvent'.op \in {"click", "timer", "error", "message", "malformed"}
           \/ lastEvent'.op = "close" /\ lastEvent'.code = NORMAL_CLOSURE)
            => reconnectAttempts' = reconnectAttempts]_vars

\* a reconnect request has created a socket after the retries were
\* exhausted, and the counter is still at the ceiling
C25_Witness ==
    /\ lastEvent.op = "click"
    /\ connectionStatus = "connecting"
    /\ reconnectAttempts = maxReconnectAttempts
    /\ timers = {}
    /\ Cardinality(ClosedSockets) = Len(sockets) - 1
    /\ sockets[wsRef] = "CONNECTING"

\* C26: the attempt counter is at least 0 and at most 5 in every reachable
\* state.
C26_AttemptsWithinCeiling ==
    /\ reconnectAttempts >= 0
    /\ reconnectAttempts <= maxReconnectAttempts

\* two sockets were live at once, both have closed abnormally, and the
\* counter stands at the ceiling
C26_Witness ==
    /\ lastEvent.op = "close"
    /\ lastEvent.code = ABNORMAL_CLOSURE
    /\ reconnectAttempts = maxReconnectAttempts
    /\ clicks = 1
    /\ Cardinality(ClosedSockets) = Len(sockets)
    /\ Len(sockets) = MaxReopenSockets

\* the manager is at rest after the automatic retries: six sockets were
\* created (the first attempt and five retries), all are closed, no retry is
\* pending
Quiescent ==
    /\ connectionStatus = "disconnected"
    /\ Len(sockets) = maxReconnectAttempts + 1
    /\ \A s \in SocketIds : sockets[s] = "CLOSED"
    /\ timers = {}
    /\ reconnectAttempts = maxReconnectAttempts

\* C27: when every attempt fails and no reconnect request is made, the
\* manager eventually reaches, and then stays in, the state of rest: status
\* disconnected, no live socket, no pending retry, attempt = 5, after
\* exactly five automatic retries.
C27_RetriesEndInQuiescence ==
    <>(clicks > 0) \/ <>[]Quiescent

\* the manager is at rest and no reconnect request was made
C27_Witness ==
    /\ Quiescent
    /\ clicks = 0
    /\ lastEvent.op = "close"

\* the step is an open event
OpenEvent ==
    \E s \in SocketIds : sockets[s] = "CONNECTING" /\ sockets'[s] = "OPEN"

\* C28: the status only becomes connected from connecting: an open event is
\* only processed while the status is connecting.
C28_ConnectedOnlyFromConnecting ==
    [][/\ OpenEvent => connectionStatus = "connecting"
       /\ (connectionStatus' = "connected" /\ connectionStatus # "connected")
            => connectionStatus = "connecting"]_vars

\* C29: while the status is disconnected the socket the manager holds is not
\* open.
C29_DisconnectedMeansNotOpen ==
    connectionStatus = "disconnected" => ~(wsRef # 0 /\ sockets[wsRef] = "OPEN")

\* C30: at most one drift interval is pending in every reachable state.
C30_OneDriftTimer == Cardinality(driftTimers) <= 1

\* the drift interval has been restarted on the way from connecting over
\* error to disconnected, and one interval is pending
C30_Witness ==
    /\ lastEvent.op = "close"
    /\ connectionStatus = "disconnected"
    /\ reconnectAttempts = 1
    /\ driftTimers = {"disconnected"}

\* the shape slot extraction reads a payload by: the `slots` list, else the
\* `displays` collection, else the list that data is, else none
ExtractionSource(data) ==
    IF IsArray(Field(data, "slots")) THEN "slots"
    ELSE IF Field(data, "displays").kind \in {"array", "object"} THEN "displays"
    ELSE IF IsArray(data) THEN "data"
    ELSE "none"

\* C31: slot extraction from an initial_data payload follows the precedence
\* slots list, displays (list elementwise, mapping by key), data as a list,
\* nothing: the store takes the records of the first shape the payload
\* matches, also when the payload matches several shapes, and stays as it is
\* when that shape holds no record or no shape matches.
C31_ExtractionPrecedence ==
    [][\A data \in SnapshotPayloads \cup PrecedencePayloads \cup EmptyPayloads :
          Applies([type |-> "initial_data", data |-> data]) =>
            LET source == ExtractionSource(data)
                records == CASE source = "slots" -> Field(data, "slots").items
                             [] source = "displays" /\ IsArray(Field(data, "displays"))
                                  -> Field(data, "displays").items
                             [] source = "displays"
                                  -> SelectSeq(Field(data, "displays").entries,
                                               LAMBDA e : e.object)
                             [] source = "data" -> data.items
                             [] OTHER -> <<>>
                ids == CASE source = "slots" -> ListIds(records, TRUE)
                         [] source = "displays" /\ ~IsArray(Field(data, "displays"))
                              -> {records[i].key : i \in 1..Len(records)}
                         [] OTHER -> ListIds(records, FALSE)
            IN  IF Len(records) > 0
                THEN /\ Len(parkingSlots') = Len(records)
                     /\ IdSet(parkingSlots') = ids
                ELSE parkingSlots' = parkingSlots]_vars

\* a payload with a slots list of A1 and a displays collection of B2 has been
\* applied
C31_Witness ==
    /\ lastEvent.op = "message"
    /\ lastEvent.message.type = "initial_data"
    /\ lastEvent.message.data \in PrecedencePayloads
    /\ IsArray(Field(lastEvent.message.data, "slots"))
    /\ TruthyObject(Field(lastEvent.message.data, "displays"))
    /\ IdSet(parkingSlots) = {"A1"}

\* C32: a single_update frame with data u leaves the store that a bulk_update
\* frame whose updates list is [u] would have left.
C32_SingleEqualsBulkOfOne ==
    [][\A u \in UpdateInputs :
          Applies([type |-> "single_update", data |-> Obj(u)]) =>
            parkingSlots' =
               handleWebSocketMessage(
                  parkingSlots,
                  [type |-> "bulk_update",
                   data |-> Obj([updates |-> Arr(<<u>>), updateCount |-> 1])],
                  lastEvent'.now)]_vars

\* C33: an inbound frame updates lastMessageTime exactly when it is a
\* {type, data} envelope handed to handleWebSocketMessage; a frame dropped as
\* malformed, whether its text does not parse or parses to something that is
\* no envelope, leaves lastMessageTime as it was.
C33_LastMessageOnlyForEnvelopes ==
    [][/\ lastEvent'.op = "message" => lastMessageTime' = lastEvent'.now
       /\ lastEvent'.op = "malformed" => lastMessageTime' = lastMessageTime
       /\ lastMessageTime' # lastMessageTime => lastEvent'.op = "message"]_vars

\* C34: the status history never holds more than 10 entries, its entries are
\* in arrival order, and every recorded status payload is appended behind
\* the most recent min(n, 9) entries held before, so that the history is
\* always the most recent min(n, 10) recorded payloads.
C34_HistoryKeepsLastTen ==
    /\ [](/\ Len(statusHistory) <= 10
          /\ \A i \in 1..Len(statusHistory) :
                /\ statusHistory[i].timestamp <= lastMessageTime
                /\ i > 1 => statusHistory[i - 1].timestamp < statusHistory[i].timestamp)
    /\ [][\A m \in HistoryFrames :
             Applies(m) =>
                LET n == Len(statusHistory)
                    kept == Min(n, 9)
                IN  IF m.data.kind = "object"
                    THEN /\ Len(statusHistory') = kept + 1
                         /\ statusHistory'[kept + 1] =
                               [timestamp |-> lastEvent'.now, data |-> m.data]
                         /\ \A k \in 1..kept :
                               statusHistory'[k] = statusHistory[n - kept + k]
                    ELSE statusHistory' = statusHistory]_vars

\* eleven payloads have been recorded: the history holds the last ten, the
\* first has been dropped
C34_Witness ==
    /\ Len(statusHistory) = 10
    /\ statusHistory[1].timestamp = 2
    /\ statusHistory[10].timestamp = 11
    /\ statusHistory[1].data # statusHistory[2].data

\* C35: in a drift tick, every slot that does not flip has its duration
\* increased by exactly 1 (a slot without duration counts from 0) and its
\* id, state, zone, floor and lastUpdated left as they were.
C35_NoFlipCountsOneMinute ==
    [][lastEvent'.op = "drift" =>
          \A i \in 1..Len(parkingSlots) :
             ~StateChanged(i) =>
                /\ parkingSlots'[i].duration = NumOr(parkingSlots[i], "duration", 0) + 1
                /\ \A f \in {"id", "state", "zone", "floor", "lastUpdated"} :
                      SameField(parkingSlots[i], parkingSlots'[i], f)]_vars

\* two ticks have passed over a free slot without flipping it
C35_Witness ==
    /\ lastEvent.op = "drift"
    /\ parkingSlots = <<[id |-> "B2", state |-> "free", zone |-> "B", floor |-> 2,
                         lastUpdated |-> 3, duration |-> 2]>>

\* the step applies a delta batch
AppliesDelta ==
    /\ lastEvent'.op = "message"
    /\ lastEvent'.message.type \in {"bulk_update", "single_update"}

\* C36: every drift tick and every delta batch keeps the number of records
\* and the sequence of their ids, a drift tick also keeps the zone and floor
\* of every record, and the sequence of ids changes only in a step that
\* applies a full snapshot.
C36_IdsChangeOnlyBySnapshot ==
    [][/\ (lastEvent'.op = "drift" \/ AppliesDelta) =>
             /\ Len(parkingSlots') = Len(parkingSlots)
             /\ \A i \in 1..Len(parkingSlots) :
                   SameField(parkingSlots[i], parkingSlots'[i], "id")
       /\ lastEvent'.op = "drift" =>
             \A i \in 1..Len(parkingSlots) :
                /\ SameField(parkingSlots[i], parkingSlots'[i], "zone")
                /\ SameField(parkingSlots[i], parkingSlots'[i], "floor")
       /\ IdsOf(parkingSlots') # IdsOf(parkingSlots) =>
             /\ lastEvent'.op = "message"
             /\ lastEvent'.message.type = "initial_data"]_vars

\* a tick has flipped the first of two records, one of them without id
C36_Witness ==
    /\ lastEvent.op = "drift"
    /\ Len(parkingSlots) = 2
    /\ parkingSlots[1].lastUpdated = lastEvent.now
    /\ parkingSlots[1].duration = 0
    /\ ~Has(parkingSlots[2], "id")
    /\ parkingSlots[2].duration = 1

\* C37: once the store holds a record, no inbound frame of any type and no
\* drift tick leaves it empty.
C37_StoreNeverEmptied ==
    [][(/\ Len(parkingSlots) > 0
        /\ lastEvent'.op \in {"message", "malformed", "drift"})
          => Len(parkingSlots') > 0]_vars

\* the probability, in thousandths, of a flip of slot: 40 on floor 1, 10 on
\* floor 3, 20 otherwise, doubled for an occupied slot whose duration exceeds
\* 60 and scaled by 1.5 for a free slot whose duration exceeds 10
ScaledByDurationBefore(slot) ==
    LET base == IF slot.floor = 1 THEN 40 ELSE IF slot.floor = 3 THEN 10 ELSE 20
    IN  IF slot.state = "occupied" /\ slot.duration > 60 THEN base * 2
        ELSE IF slot.state = "free" /\ slot.duration > 10 THEN (base * 3) \div 2
        ELSE base

\* C38: a drift tick flips a slot exactly when its sample is below the
\* per-floor probability, scaled by 2 exactly for an occupied slot whose
\* duration before the tick exceeds 60 and by 1.5 exactly for a free slot
\* whose duration before the tick exceeds 10; at a duration equal to the
\* threshold the probability is the unscaled one.
C38_MultipliersAboveThreshold ==
    [][lastEvent'.op = "drift" =>
          \A i \in 1..Len(parkingSlots) :
             StateChanged(i) <=>
                lastEvent'.random[i] < ScaledByDurationBefore(parkingSlots[i])]_vars

============================================================================
